---------------------------- MODULE Spec2Model ----------------------------
(***************************************************************************)
(* A model of EnigmaMachine.py: the Rotor, Reflector and EnigmaMachine     *)
(* classes, the preset rotor and reflector objects created when the module *)
(* is imported, and the calls a client can make on them.                   *)
(*                                                                         *)
(* Python objects are kept by reference: `rotors` is the heap of Rotor     *)
(* objects, and a machine holds the identities of its rotors, not copies.  *)
(* Characters are code points, strings are sequences of code points.       *)
(* Sequences are 1-based here and 0-based in the source: symbol v of the   *)
(* source is looked up at index v + 1.                                     *)
(***************************************************************************)
EXTENDS Integers, Sequences, FiniteSets, TLC

VARIABLES
    rotors,     \* heap of Rotor objects: identity -> fields
    machines,   \* the EnigmaMachine objects constructed so far, in order
    calls,      \* how many calls the client has made
    last        \* the most recent call: name, arguments, state before, outcome

vars == <<rotors, machines, calls, last>>

-----------------------------------------------------------------------------
(* Program constants *)

\* The size of the alphabet: every wiring, mapping and modulus of the source
AlphabetSize == 26

\* ord('a'), the code point subtracted from every lowercased character
OrdA == 97

\* ord(' '), the character encode removes from its input
OrdSpace == 32

-----------------------------------------------------------------------------
(* Bounds of the model *)

\* the client makes at most this many calls
MaxCalls == 3

\* at most this many EnigmaMachine objects are constructed
MaxMachines == 2

-----------------------------------------------------------------------------
(* Python values and outcomes *)

IntV(n) == <<"int", n>>
\* a float, as its whole part and the tenths of its fractional part
FloatV(n, f) == <<"float", n, f>>
StrV(s) == <<"str", s>>
ListV(xs) == <<"list", xs>>
TupleV(xs) == <<"tuple", xs>>
NoneV == <<"None">>

\* one character as a Python string of length 1
Chr(c) == StrV(<<c>>)

\* a call returns a value or raises an exception
Ok(v) == [ok |-> TRUE, val |-> v]
Raise(e) == [ok |-> FALSE, exc |-> e]

\* str.lower() and str.upper() on one code point (ASCII letters)
Lower(c) == IF c >= 65 /\ c <= 90 THEN c + 32 ELSE c
Upper(c) == IF c >= 97 /\ c <= 122 THEN c - 32 ELSE c

\* x % 26 as Python computes it (the result is never negative)
Mod26(x) == x % AlphabetSize

Symbols == 0 .. (AlphabetSize - 1)

\* the first outcome of rs that is an exception, when there is one
FirstRaise(rs) ==
    rs[CHOOSE i \in 1..Len(rs) : ~rs[i].ok /\ \A j \in 1..(i-1) : rs[j].ok]

AllOk(rs) == \A i \in 1..Len(rs) : rs[i].ok

\* list.index(x) of the source, 0-based
IndexOf(xs, x) == (CHOOSE i \in 1..Len(xs) : xs[i] = x /\ \A j \in 1..(i-1) : xs[j] # x) - 1

\* the elements of a sequence
Range(xs) == {xs[i] : i \in 1..Len(xs)}

\* a str argument becomes the list of its characters; a list or tuple is itself
Elements(x) ==
    IF x[1] = "str" THEN [i \in 1..Len(x[2]) |-> Chr(x[2][i])] ELSE x[2]

-----------------------------------------------------------------------------
(* Rotor *)

\* The conversion of one element to a symbol, as every _check_* method does it:
\* a float without fraction is its integer, an integer must be in [0, 25],
\* a string must be one letter, anything else is a TypeError.
ToSymbol(a) ==
    IF a[1] = "float" /\ a[3] # 0 THEN Raise("TypeError")
    ELSE IF a[1] \in {"int", "float"}
         THEN IF a[2] < 0 \/ a[2] > 25 THEN Raise("ValueError") ELSE Ok(a[2])
    ELSE IF a[1] = "str"
         THEN IF Len(a[2]) # 1 THEN Raise("ValueError")
              ELSE LET v == Lower(a[2][1]) - OrdA
                   IN IF v < 0 \/ v > 25 THEN Raise("ValueError") ELSE Ok(v)
    ELSE Raise("TypeError")

\* Rotor._check_position
CheckPosition(position) ==
    IF position[1] = "float" /\ position[3] # 0 THEN Raise("TypeError")
    ELSE IF position[1] \in {"int", "float"}
         THEN IF position[2] < 0 \/ position[2] > 25
              THEN Raise("ValueError") ELSE Ok(position[2])
    ELSE IF position[1] = "str"
         THEN IF Len(position[2]) # 1 THEN Raise("ValueError")
              ELSE LET v == Lower(position[2][1]) - OrdA
                   IN IF v < 0 \/ v > 25 THEN Raise("ValueError") ELSE Ok(v)
    ELSE Raise("TypeError")

\* Rotor._check_ring_setting
CheckRingSetting(ring_setting) == CheckPosition(ring_setting)

\* Rotor._check_alphabet: the pair of increment lists, or the exception
CheckAlphabet(alphabet) ==
    IF alphabet[1] \notin {"str", "list", "tuple"} THEN Raise("TypeError")
    ELSE LET elems == Elements(alphabet)
         IN IF Len(elems) # AlphabetSize THEN Raise("ValueError")
            ELSE LET conv == [i \in 1..Len(elems) |-> ToSymbol(elems[i])]
                 IN IF ~AllOk(conv) THEN FirstRaise(conv)
                    ELSE LET ret == [i \in 1..Len(elems) |-> conv[i].val]
                         IN IF \E i \in Symbols : i \notin Range(ret)
                            THEN Raise("ValueError")
                            ELSE Ok([increments |->
                                        [i \in 1..AlphabetSize |-> ret[i] - (i - 1)],
                                     reverse_increments |->
                                        [i \in 1..AlphabetSize |->
                                            IndexOf(ret, i - 1) - (i - 1)]])

\* Rotor._check_turnovers: list(set(ret)), kept as a set
CheckTurnovers(turnovers) ==
    IF turnovers[1] \notin {"int", "str", "float", "list", "tuple"}
    THEN Raise("TypeError")
    ELSE LET elems == IF turnovers[1] \in {"int", "str", "float"}
                      THEN <<turnovers>> ELSE turnovers[2]
             conv == [i \in 1..Len(elems) |-> ToSymbol(elems[i])]
         IN IF ~AllOk(conv) THEN FirstRaise(conv)
            ELSE Ok({conv[i].val : i \in 1..Len(elems)})

\* Rotor.__init__: the new object's fields, or the first exception
RotorInit(alphabet, turnovers, position, ring_setting) ==
    LET a == CheckAlphabet(alphabet)
        t == CheckTurnovers(turnovers)
        p == CheckPosition(position)
        r == CheckRingSetting(ring_setting)
    IN IF ~a.ok THEN a
       ELSE IF ~t.ok THEN t
       ELSE IF ~p.ok THEN p
       ELSE IF ~r.ok THEN r
       ELSE Ok([increments |-> a.val.increments,
                reverse_increments |-> a.val.reverse_increments,
                turnovers |-> t.val,
                position |-> p.val,
                ring_setting |-> r.val])

\* right_side looking the increment up at val itself, the rotor's position and
\* ring setting forgotten
right_side_unrotated(rot, val) ==
    Mod26(val + rot.increments[val + 1])

\* Rotor.right_side on the rotor object rot
right_side(rot, val) ==
    Mod26(val + rot.increments[Mod26(val + rot.position - rot.ring_setting) + 1])

\* left_side looking the increment up at val itself, the rotor's position and
\* ring setting forgotten
left_side_unrotated(rot, val) ==
    Mod26(val + rot.reverse_increments[val + 1])

\* Rotor.left_side on the rotor object rot
left_side(rot, val) ==
    Mod26(val + rot.reverse_increments[Mod26(val + rot.position - rot.ring_setting) + 1])

\* rotate moving the ring setting along with the position
rotate_with_ring(rot) ==
    [rot |-> [rot EXCEPT !.position = Mod26(rot.position + 1),
                         !.ring_setting = Mod26(rot.ring_setting + 1)],
     ret |-> rot.position \in rot.turnovers]

\* rotate with the position counted on past 25
rotate_unwrapped(rot) ==
    [rot |-> [rot EXCEPT !.position = rot.position + 1],
     ret |-> rot.position \in rot.turnovers]

\* Rotor.rotate: the rotor after the call, and what the call returns
rotate(rot) ==
    [rot |-> [rot EXCEPT !.position = Mod26(rot.position + 1)],
     ret |-> rot.position \in rot.turnovers]

-----------------------------------------------------------------------------
(* Reflector *)

\* _check_mapping without the test i == m: an entry may map to itself
CheckMappingFixedPoints(mapping) ==
    IF mapping[1] \notin {"str", "list", "tuple"} THEN Raise("TypeError")
    ELSE LET elems == Elements(mapping)
         IN IF Len(elems) # AlphabetSize THEN Raise("ValueError")
            ELSE LET conv == [i \in 1..Len(elems) |-> ToSymbol(elems[i])]
                 IN IF ~AllOk(conv) THEN FirstRaise(conv)
                    ELSE LET ret == [i \in 1..Len(elems) |-> conv[i].val]
                         IN IF \E i \in Symbols : i \notin Range(ret)
                            THEN Raise("ValueError")
                            ELSE Ok(ret)

\* Reflector._check_mapping: the list of integers, or the exception
CheckMapping(mapping) ==
    IF mapping[1] \notin {"str", "list", "tuple"} THEN Raise("TypeError")
    ELSE LET elems == Elements(mapping)
         IN IF Len(elems) # AlphabetSize THEN Raise("ValueError")
            ELSE LET conv == [i \in 1..Len(elems) |->
                                LET m == ToSymbol(elems[i])
                                IN IF m.ok /\ i - 1 = m.val
                                   THEN Raise("ValueError") ELSE m]
                 IN IF ~AllOk(conv) THEN FirstRaise(conv)
                    ELSE LET ret == [i \in 1..Len(elems) |-> conv[i].val]
                         IN IF \E i \in Symbols : i \notin Range(ret)
                            THEN Raise("ValueError")
                            ELSE Ok(ret)

\* Reflector.__init__: the new object's mapping, or the exception
ReflectorInit(mapping) == CheckMapping(mapping)

\* Reflector.reflect on the mapping of a constructed Reflector
reflect(mapping, val) == mapping[val + 1]

-----------------------------------------------------------------------------
(* The preset objects the module creates when it is imported *)

\* ROTOR_1 = Rotor("EKMFLGDQVZNTOWYHXUSPAIBRCJ", "Q")
ROTOR_1 ==
    RotorInit(StrV(<<69,75,77,70,76,71,68,81,86,90,78,84,79,87,89,72,88,85,83,80,65,73,66,82,67,74>>),
              Chr(81), IntV(0), IntV(0)).val

\* ROTOR_2 = Rotor("AJDKSIRUXBLHWTMCQGZNPYFVOE", "E")
ROTOR_2 ==
    RotorInit(StrV(<<65,74,68,75,83,73,82,85,88,66,76,72,87,84,77,67,81,71,90,78,80,89,70,86,79,69>>),
              Chr(69), IntV(0), IntV(0)).val

\* ROTOR_3 = Rotor("BDFHJLCPRTXVZNYEIWGAKMUSQO", "V")
ROTOR_3 ==
    RotorInit(StrV(<<66,68,70,72,74,76,67,80,82,84,88,86,90,78,89,69,73,87,71,65,75,77,85,83,81,79>>),
              Chr(86), IntV(0), IntV(0)).val

\* ROTOR_4 = Rotor("ESOVPZJAYQUIRHXLNFTGKDCMWB", "J")
ROTOR_4 ==
    RotorInit(StrV(<<69,83,79,86,80,90,74,65,89,81,85,73,82,72,88,76,78,70,84,71,75,68,67,77,87,66>>),
              Chr(74), IntV(0), IntV(0)).val

\* ROTOR_5 = Rotor("VZBRGITYUPSDNHLXAWMJQOFECK", "Z")
ROTOR_5 ==
    RotorInit(StrV(<<86,90,66,82,71,73,84,89,85,80,83,68,78,72,76,88,65,87,77,74,81,79,70,69,67,75>>),
              Chr(90), IntV(0), IntV(0)).val

\* ROTOR_6 = Rotor("JPGVOUMFYQBENHZRDKASXLICTW", ["Z", "M"])
ROTOR_6 ==
    RotorInit(StrV(<<74,80,71,86,79,85,77,70,89,81,66,69,78,72,90,82,68,75,65,83,88,76,73,67,84,87>>),
              ListV(<<Chr(90), Chr(77)>>), IntV(0), IntV(0)).val

\* ROTOR_7 = Rotor("NZJHGRCXMYSWBOUFAIVLPEKQDT", ["Z", "M"])
ROTOR_7 ==
    RotorInit(StrV(<<78,90,74,72,71,82,67,88,77,89,83,87,66,79,85,70,65,73,86,76,80,69,75,81,68,84>>),
              ListV(<<Chr(90), Chr(77)>>), IntV(0), IntV(0)).val

\* ROTOR_8 = Rotor("FKQHTLXOCBJSPDZRAMEWNIUYGV", ["Z", "M"])
ROTOR_8 ==
    RotorInit(StrV(<<70,75,81,72,84,76,88,79,67,66,74,83,80,68,90,82,65,77,69,87,78,73,85,89,71,86>>),
              ListV(<<Chr(90), Chr(77)>>), IntV(0), IntV(0)).val

\* REFLECTOR_BETA = Reflector("LEYJVCNIXWPBQMDRTAKZGFUHOS")
REFLECTOR_BETA ==
    ReflectorInit(StrV(<<76,69,89,74,86,67,78,73,88,87,80,66,81,77,68,82,84,65,75,90,71,70,85,72,79,83>>)).val

\* REFLECTOR_GAMMA = Reflector("FSOKANUERHMBTIYCWLQPZXVGJD")
REFLECTOR_GAMMA ==
    ReflectorInit(StrV(<<70,83,79,75,65,78,85,69,82,72,77,66,84,73,89,67,87,76,81,80,90,88,86,71,74,68>>)).val

\* REFLECTOR_A = Reflector("EJMZALYXVBWFCRQUONTSPIKHGD")
REFLECTOR_A ==
    ReflectorInit(StrV(<<69,74,77,90,65,76,89,88,86,66,87,70,67,82,81,85,79,78,84,83,80,73,75,72,71,68>>)).val

\* REFLECTOR_B = Reflector("YRUHQSLDPXNGOKMIEBFZCWVJAT")
REFLECTOR_B ==
    ReflectorInit(StrV(<<89,82,85,72,81,83,76,68,80,88,78,71,79,75,77,73,69,66,70,90,67,87,86,74,65,84>>)).val

\* REFLECTOR_C = Reflector("FVPJIAOYEDRZXWGCTKUQSBNMHL")
REFLECTOR_C ==
    ReflectorInit(StrV(<<70,86,80,74,73,65,79,89,69,68,82,90,88,87,71,67,84,75,85,81,83,66,78,77,72,76>>)).val

\* REFLECTOR_B_THIN = Reflector("ENKQAUYWJICOPBLMDXZVFTHRGS")
REFLECTOR_B_THIN ==
    ReflectorInit(StrV(<<69,78,75,81,65,85,89,87,74,73,67,79,80,66,76,77,68,88,90,86,70,84,72,82,71,83>>)).val

\* REFLECTOR_C_THIN = Reflector("RDOBJNTKVEHMLFCWZAXGYIPSUQ")
REFLECTOR_C_THIN ==
    ReflectorInit(StrV(<<82,68,79,66,74,78,84,75,86,69,72,77,76,70,67,87,90,65,88,71,89,73,80,83,85,81>>)).val

-----------------------------------------------------------------------------
(* EnigmaMachine: construction *)

\* EnigmaMachine._check_rotors: list(rotors), a new list of the same objects.
\* The argument is a list of Rotor objects, given by their identities.
CheckRotors(rotorsArg) ==
    IF Len(rotorsArg) = 0 THEN Raise("ValueError") ELSE Ok(rotorsArg)

\* EnigmaMachine._check_reflector: the same Reflector object
CheckReflector(reflector) == Ok(reflector)

\* One entry of the plugboard list as a pair of symbols, or the exception
PlugPair(p) ==
    IF p[1] = "str"
    THEN IF Len(p[2]) # 2 THEN Raise("ValueError")
         ELSE LET v1 == Lower(p[2][1]) - OrdA
                  v2 == Lower(p[2][2]) - OrdA
              IN IF v1 < 0 \/ v1 > 25 \/ v2 < 0 \/ v2 > 25
                 THEN Raise("ValueError") ELSE Ok(<<v1, v2>>)
    ELSE IF p[1] \in {"list", "tuple"}
    THEN IF Len(p[2]) # 2 THEN Raise("ValueError")
         ELSE LET conv == [i \in 1..2 |-> ToSymbol(p[2][i])]
              IN IF ~AllOk(conv) THEN FirstRaise(conv)
                 ELSE Ok(<<conv[1].val, conv[2].val>>)
    ELSE Raise("TypeError")

\* d[p[0]] = p[1] alone: the pair is entered in one direction only
ConnectOneWay(d, p) ==
    [k \in (DOMAIN d) \cup {p[1]} |-> IF k = p[1] THEN p[2] ELSE d[k]]

\* d[p[0]] = p[1]; d[p[1]] = p[0] on the dictionary d (a function on its keys)
Connect(d, p) ==
    [k \in (DOMAIN d) \cup {p[1], p[2]} |->
        IF k = p[2] THEN p[1] ELSE IF k = p[1] THEN p[2] ELSE d[k]]

\* The loop of _check_plugboard with the conflict check on p[0] alone
RECURSIVE PlugLoopFirstSide(_, _, _)
PlugLoopFirstSide(plugs, i, d) ==
    IF i > Len(plugs)
    THEN Ok([k \in 1..AlphabetSize |-> IF (k - 1) \in DOMAIN d THEN d[k - 1] ELSE k - 1])
    ELSE LET p == PlugPair(plugs[i])
         IN IF ~p.ok THEN p
            ELSE IF p.val[1] \in DOMAIN d
                 THEN Raise("ValueError")
                 ELSE PlugLoopFirstSide(plugs, i + 1, Connect(d, p.val))

\* The loop of _check_plugboard from entry i on, with the dictionary d so far
RECURSIVE PlugLoop(_, _, _)
PlugLoop(plugs, i, d) ==
    IF i > Len(plugs)
    THEN Ok([k \in 1..AlphabetSize |-> IF (k - 1) \in DOMAIN d THEN d[k - 1] ELSE k - 1])
    ELSE LET p == PlugPair(plugs[i])
         IN IF ~p.ok THEN p
            ELSE IF p.val[1] \in DOMAIN d \/ p.val[2] \in DOMAIN d
                 THEN Raise("ValueError")
                 ELSE PlugLoop(plugs, i + 1, Connect(d, p.val))

\* EnigmaMachine._check_plugboard: the 26-entry table, or the exception
CheckPlugboard(plugboard) ==
    IF plugboard[1] \notin {"list", "tuple"} THEN Raise("TypeError")
    ELSE PlugLoop(plugboard[2], 1, <<>>)

-----------------------------------------------------------------------------
(* EnigmaMachine: setters.  Each takes the heap rs and the machine's rotor  *)
(* list ids, and gives the heap after the call and the call's outcome.      *)

\* The for loop of set_positions from entry i on
RECURSIVE SetPositionsLoop(_, _, _, _)
SetPositionsLoop(rs, ids, ps, i) ==
    IF i > Len(ps) THEN [rotors |-> rs, res |-> Ok(NoneV)]
    ELSE LET p == CheckPosition(ps[i])
         IN IF ~p.ok THEN [rotors |-> rs, res |-> p]
            ELSE SetPositionsLoop([rs EXCEPT ![ids[i]].position = p.val],
                                  ids, ps, i + 1)

\* EnigmaMachine.set_positions
set_positions(rs, ids, positions) ==
    IF positions[1] \notin {"list", "tuple"}
    THEN [rotors |-> rs, res |-> Raise("TypeError")]
    ELSE IF Len(positions[2]) # Len(ids)
    THEN [rotors |-> rs, res |-> Raise("ValueError")]
    ELSE SetPositionsLoop(rs, ids, positions[2], 1)

\* The for loop of set_ring_settings from entry i on
RECURSIVE SetRingSettingsLoop(_, _, _, _)
SetRingSettingsLoop(rs, ids, settings, i) ==
    IF i > Len(settings) THEN [rotors |-> rs, res |-> Ok(NoneV)]
    ELSE LET r == CheckRingSetting(settings[i])
         IN IF ~r.ok THEN [rotors |-> rs, res |-> r]
            ELSE SetRingSettingsLoop([rs EXCEPT ![ids[i]].ring_setting = r.val],
                                     ids, settings, i + 1)

\* EnigmaMachine.set_ring_settings
set_ring_settings(rs, ids, ring_settings) ==
    IF ring_settings[1] \notin {"list", "tuple"}
    THEN [rotors |-> rs, res |-> Raise("TypeError")]
    ELSE IF Len(ring_settings[2]) # Len(ids)
    THEN [rotors |-> rs, res |-> Raise("ValueError")]
    ELSE SetRingSettingsLoop(rs, ids, ring_settings[2], 1)

\* EnigmaMachine.__init__: the heap after the call, and the new machine or the
\* exception.  A setter that raises has already changed the rotors before it.
MachineInit(rs, rotorsArg, reflector, positions, ring_settings, plugboard) ==
    LET r == CheckRotors(rotorsArg)
        f == CheckReflector(reflector)
        b == CheckPlugboard(IF plugboard # NoneV THEN plugboard ELSE ListV(<<>>))
    IN IF ~r.ok THEN [rotors |-> rs, res |-> r]
       ELSE IF ~f.ok THEN [rotors |-> rs, res |-> f]
       ELSE IF ~b.ok THEN [rotors |-> rs, res |-> b]
       ELSE LET self == [rotors |-> r.val, reflector |-> f.val, plugboard |-> b.val]
                s1 == IF positions # NoneV
                      THEN set_positions(rs, self.rotors, positions)
                      ELSE [rotors |-> rs, res |-> Ok(NoneV)]
                s2 == IF ring_settings # NoneV
                      THEN set_ring_settings(s1.rotors, self.rotors, ring_settings)
                      ELSE [rotors |-> s1.rotors, res |-> Ok(NoneV)]
            IN IF ~s1.res.ok THEN s1
               ELSE IF ~s2.res.ok THEN s2
               ELSE [rotors |-> s2.rotors, res |-> Ok(self)]

-----------------------------------------------------------------------------
(* EnigmaMachine.encode *)

\* for r in reversed(self.rotors): if not r.rotate(): break
\* from the rotor at index i of ids down to the first
RECURSIVE RotateFrom(_, _, _)
RotateFrom(rs, ids, i) ==
    IF i = 0 THEN rs
    ELSE LET r == rotate(rs[ids[i]])
             rs2 == [rs EXCEPT ![ids[i]] = r.rot]
         IN IF ~r.ret THEN rs2 ELSE RotateFrom(rs2, ids, i - 1)

\* the stepping of the rotors for one symbol
StepRotors(rs, ids) == RotateFrom(rs, ids, Len(ids))

\* for r in reversed(self.rotors): v = r.right_side(v), from index i down
RECURSIVE RightPass(_, _, _, _)
RightPass(rs, ids, i, v) ==
    IF i = 0 THEN v ELSE RightPass(rs, ids, i - 1, right_side(rs[ids[i]], v))

\* the way back through the rotors with right_side in place of left_side
RECURSIVE LeftPassRightSide(_, _, _, _)
LeftPassRightSide(rs, ids, i, v) ==
    IF i > Len(ids) THEN v
    ELSE LeftPassRightSide(rs, ids, i + 1, right_side(rs[ids[i]], v))

\* for r in self.rotors: v = r.left_side(v), from index i up
RECURSIVE LeftPass(_, _, _, _)
LeftPass(rs, ids, i, v) ==
    IF i > Len(ids) THEN v ELSE LeftPass(rs, ids, i + 1, left_side(rs[ids[i]], v))

\* The path of one symbol through the machine, the rotors being as in rs:
\* plugboard, right sides, reflector, left sides, plugboard.  The range checks
\* of right_side, left_side and reflect never fire here: every table holds
\* values in [0, 25] only.
Signal(rs, self, v) ==
    LET v1 == self.plugboard[v + 1]
        v2 == RightPass(rs, self.rotors, Len(self.rotors), v1)
        v3 == reflect(self.reflector, v2)
        v4 == LeftPass(rs, self.rotors, 1, v3)
    IN self.plugboard[v4 + 1]

\* string.lower() alone, the spaces kept
CleanedKeepSpaces(string) ==
    [i \in 1..Len(string) |-> Lower(string[i])]

\* string.lower().replace(" ", "")
Cleaned(string) ==
    LET low == [i \in 1..Len(string) |-> Lower(string[i])]
    IN SelectSeq(low, LAMBDA c : c # OrdSpace)

\* The loop of encode with the rotors stepped before the character is
\* checked: an unencodable character steps the rotors too
RECURSIVE EncodeLoopStepFirst(_, _, _, _, _)
EncodeLoopStepFirst(rs, self, cs, i, ret) ==
    IF i > Len(cs)
    THEN [rotors |-> rs, res |-> Ok([k \in 1..Len(ret) |-> Upper(ret[k])])]
    ELSE LET v == cs[i] - OrdA
             rs2 == StepRotors(rs, self.rotors)
         IN IF v < 0 \/ v > 25
            THEN [rotors |-> rs2, res |-> Raise("ValueError")]
            ELSE EncodeLoopStepFirst(rs2, self, cs, i + 1,
                                     Append(ret, Signal(rs2, self, v) + OrdA))

\* The loop of encode with each character passed through the rotors as they
\* are before its stepping
RECURSIVE EncodeLoopSignalFirst(_, _, _, _, _)
EncodeLoopSignalFirst(rs, self, cs, i, ret) ==
    IF i > Len(cs)
    THEN [rotors |-> rs, res |-> Ok([k \in 1..Len(ret) |-> Upper(ret[k])])]
    ELSE LET v == cs[i] - OrdA
         IN IF v < 0 \/ v > 25
            THEN [rotors |-> rs, res |-> Raise("ValueError")]
            ELSE LET rs2 == StepRotors(rs, self.rotors)
                 IN EncodeLoopSignalFirst(rs2, self, cs, i + 1,
                                          Append(ret, Signal(rs, self, v) + OrdA))

\* The loop of encode from character i of cs on, ret being the output so far
RECURSIVE EncodeLoop(_, _, _, _, _)
EncodeLoop(rs, self, cs, i, ret) ==
    IF i > Len(cs)
    THEN [rotors |-> rs, res |-> Ok([k \in 1..Len(ret) |-> Upper(ret[k])])]
    ELSE LET v == cs[i] - OrdA
         IN IF v < 0 \/ v > 25
            THEN [rotors |-> rs, res |-> Raise("ValueError")]
            ELSE LET rs2 == StepRotors(rs, self.rotors)
                 IN EncodeLoop(rs2, self, cs, i + 1,
                               Append(ret, Signal(rs2, self, v) + OrdA))

\* encode stepping a copy of the rotors: the output of encode, the rotors
\* left as they were before the call
encode_on_copy(rs, self, string) ==
    [rotors |-> rs, res |-> EncodeLoop(rs, self, Cleaned(string), 1, <<>>).res]

\* EnigmaMachine.encode: the heap after the call, and the output string or
\* the exception
encode(rs, self, string) == EncodeLoop(rs, self, Cleaned(string), 1, <<>>)

-----------------------------------------------------------------------------
(* The arguments the client passes, drawn from small sets *)

\* a Python list of one-letter strings and integers, from their code points
\* (an entry below 30 is the integer itself, any other a one-letter string)
Items(xs) == [i \in 1..Len(xs) |-> IF xs[i] < 30 THEN IntV(xs[i]) ELSE Chr(xs[i])]
L(xs) == ListV(Items(xs))

\* the identities of the preset Rotor objects ROTOR_1 .. ROTOR_8
RotorIds == 1..8

\* EnigmaMachine(rotors, reflector, positions, ring_settings, plugboard)
MachineArgs ==
    { <<<<1, 2, 3>>, REFLECTOR_B, NoneV, NoneV, NoneV>>,
      <<<<3, 2, 1>>, REFLECTOR_B, L(<<65, 65, 65>>), L(<<0, 0, 0>>), ListV(<<>>)>>,
      <<<<1, 2, 3>>, REFLECTOR_BETA, L(<<65, 69, 65>>), NoneV,
            ListV(<<StrV(<<65, 66>>)>>)>>,
      <<<<1, 1>>, REFLECTOR_B, L(<<81, 81>>), NoneV, NoneV>>,
      <<<<5, 6>>, REFLECTOR_C, NoneV, L(<<1, 2>>),
            ListV(<<StrV(<<99, 100>>), TupleV(<<IntV(0), Chr(98)>>)>>)>>,
      <<<<4>>, REFLECTOR_A, NoneV, NoneV, NoneV>>,
      <<<<>>, REFLECTOR_B, NoneV, NoneV, NoneV>>,
      <<<<4>>, REFLECTOR_B, L(<<26>>), NoneV, NoneV>>,
      <<<<1, 2, 3>>, REFLECTOR_B, L(<<3, 4, 21>>), L(<<1, 26, 0>>), NoneV>>,
      <<<<4>>, REFLECTOR_C, NoneV, NoneV,
            ListV(<<StrV(<<65, 66>>), StrV(<<65, 67>>)>>)>> }

\* set_positions(positions)
PositionArgs ==
    { L(<<0, 0, 0>>), L(<<65, 69, 86>>), L(<<81, 81>>), L(<<25>>),
      L(<<1, 26, 2>>), StrV(<<65, 65, 65>>), L(<<1, 2>>), L(<<1, 26>>) }

\* set_ring_settings(ring_settings)
RingArgs ==
    { L(<<0, 0, 0>>), ListV(<<IntV(1), Chr(98), FloatV(3, 0)>>), L(<<2, 2>>),
      L(<<0, -1>>), L(<<1, 2>>), L(<<3, 100, 26>>) }

\* encode(string): "", "A", "AB", "a b", "1", "A1B", "AB1", "ZZ", "AAAAA"
Messages ==
    { <<>>, <<65>>, <<65, 66>>, <<97, 32, 98>>, <<49>>, <<65, 49, 66>>,
      <<65, 66, 49>>, <<90, 90>>, <<65, 65, 65, 65, 65>> }

\* the preset Rotor objects the client calls set_position and
\* set_ring_setting on directly
SetterRotors == {1, 4}

\* Rotor.set_position(position), Rotor.set_ring_setting(ring_setting):
\* 25, 'b', 26, -1, 2.5
RotorValues == { IntV(25), Chr(98), IntV(26), IntV(-1), FloatV(2, 5) }

-----------------------------------------------------------------------------
(* The program as a state machine *)

Snapshot == [rotors |-> rotors, machines |-> machines]

\* The objects that exist once the module is imported: the preset rotors,
\* every position and ring setting 0, and no machine.
Imported ==
    /\ rotors = [r \in RotorIds |->
                    CASE r = 1 -> ROTOR_1 [] r = 2 -> ROTOR_2 [] r = 3 -> ROTOR_3
                      [] r = 4 -> ROTOR_4 [] r = 5 -> ROTOR_5 [] r = 6 -> ROTOR_6
                      [] r = 7 -> ROTOR_7 [] r = 8 -> ROTOR_8]
    /\ machines = <<>>
    /\ calls = 0

\* the outcome of a call that has not run yet
Pending == [ok |-> FALSE, exc |-> "pending"]

\* The state once the module is imported
Init ==
    /\ Imported
    /\ last = [op |-> "import", m |-> 0, args |-> <<>>,
               pre |-> [rotors |-> <<>>, machines |-> <<>>], res |-> Ok(NoneV)]

\* machine = EnigmaMachine(rotors, reflector, positions, ring_settings, plugboard)
NewMachine(a) ==
    /\ calls < MaxCalls
    /\ Len(machines) < MaxMachines
    /\ LET out == MachineInit(rotors, a[1], a[2], a[3], a[4], a[5])
       IN /\ rotors' = out.rotors
          /\ machines' = IF out.res.ok THEN Append(machines, out.res.val)
                         ELSE machines
          /\ last' = [op |-> "EnigmaMachine",
                      m |-> IF out.res.ok THEN Len(machines) + 1 ELSE 0,
                      args |-> a, pre |-> Snapshot, res |-> out.res]
    /\ calls' = calls + 1

\* machines[m].set_positions(positions)
SetPositions(m, positions) ==
    /\ calls < MaxCalls
    /\ LET out == set_positions(rotors, machines[m].rotors, positions)
       IN /\ rotors' = out.rotors
          /\ last' = [op |-> "set_positions", m |-> m, args |-> positions,
                      pre |-> Snapshot, res |-> out.res]
    /\ calls' = calls + 1
    /\ UNCHANGED machines

\* machines[m].set_ring_settings(ring_settings)
SetRingSettings(m, ring_settings) ==
    /\ calls < MaxCalls
    /\ LET out == set_ring_settings(rotors, machines[m].rotors, ring_settings)
       IN /\ rotors' = out.rotors
          /\ last' = [op |-> "set_ring_settings", m |-> m, args |-> ring_settings,
                      pre |-> Snapshot, res |-> out.res]
    /\ calls' = calls + 1
    /\ UNCHANGED machines

\* machines[m].encode(string)
Encode(m, string) ==
    /\ calls < MaxCalls
    /\ LET out == encode(rotors, machines[m], string)
       IN /\ rotors' = out.rotors
          /\ last' = [op |-> "encode", m |-> m, args |-> string,
                      pre |-> Snapshot, res |-> out.res]
    /\ calls' = calls + 1
    /\ UNCHANGED machines

\* rotors[r].set_position(position), on a preset Rotor object
RotorSetPosition(r, position) ==
    /\ calls < MaxCalls
    /\ LET p == CheckPosition(position)
       IN /\ rotors' = IF p.ok THEN [rotors EXCEPT ![r].position = p.val]
                       ELSE rotors
          /\ last' = [op |-> "Rotor.set_position", m |-> 0,
                      args |-> <<r, position>>, pre |-> Snapshot,
                      res |-> IF p.ok THEN Ok(NoneV) ELSE p]
    /\ calls' = calls + 1
    /\ UNCHANGED machines

\* rotors[r].set_ring_setting(ring_setting), on a preset Rotor object
RotorSetRingSetting(r, ring_setting) ==
    /\ calls < MaxCalls
    /\ LET p == CheckRingSetting(ring_setting)
       IN /\ rotors' = IF p.ok THEN [rotors EXCEPT ![r].ring_setting = p.val]
                       ELSE rotors
          /\ last' = [op |-> "Rotor.set_ring_setting", m |-> 0,
                      args |-> <<r, ring_setting>>, pre |-> Snapshot,
                      res |-> IF p.ok THEN Ok(NoneV) ELSE p]
    /\ calls' = calls + 1
    /\ UNCHANGED machines

Next ==
    \/ \E a \in MachineArgs : NewMachine(a)
    \/ \E m \in 1..Len(machines), positions \in PositionArgs :
          SetPositions(m, positions)
    \/ \E m \in 1..Len(machines), ring_settings \in RingArgs :
          SetRingSettings(m, ring_settings)
    \/ \E m \in 1..Len(machines), string \in Messages : Encode(m, string)
    \/ \E r \in SetterRotors, position \in RotorValues :
          RotorSetPosition(r, position)
    \/ \E r \in SetterRotors, ring_setting \in RotorValues :
          RotorSetRingSetting(r, ring_setting)

Spec == Init /\ [][Next]_vars

-----------------------------------------------------------------------------
(* Reflector construction on its own: the client constructs Reflector       *)
(* objects from mappings drawn from a family around the preset wirings.     *)

\* the wirings of the preset reflectors, as the strings the source passes
PresetMappings ==
    { StrV([i \in 1..AlphabetSize |-> m[i] + 65]) :
        m \in { REFLECTOR_BETA, REFLECTOR_GAMMA, REFLECTOR_A, REFLECTOR_B,
                REFLECTOR_C, REFLECTOR_B_THIN, REFLECTOR_C_THIN } }

\* the wiring of REFLECTOR_B, as the string the source passes
PresetB == StrV([i \in 1..AlphabetSize |-> REFLECTOR_B[i] + 65])

\* the values one entry of a mapping is overwritten with: every integer from
\* -1 to 26, a lower-case letter, a whole and a fractional float, a string of
\* two letters, a character that is no letter, and None
EntryValues ==
    { IntV(n) : n \in -1..AlphabetSize }
       \cup { Chr(99), FloatV(7, 0), FloatV(7, 5), StrV(<<65, 66>>), Chr(49), NoneV }

\* the entries of a mapping that the family overwrites: the first MaxEdit and
\* the last one
MaxEdit == 3

EditIndexes == (1..MaxEdit) \cup {AlphabetSize}

\* a mapping as the list of its one-letter strings
AsList(mapping) == ListV(Elements(mapping))

\* entries i and j of a list exchanged
Swapped(xs, i, j) ==
    [k \in 1..Len(xs) |-> IF k = i THEN xs[j] ELSE IF k = j THEN xs[i] ELSE xs[k]]

MappingArgs ==
    PresetMappings
      \cup { AsList(m) : m \in PresetMappings }
      \cup { ListV([Elements(m) EXCEPT ![i] = x]) :
                m \in PresetMappings, i \in EditIndexes, x \in EntryValues }
      \cup { ListV(Swapped(Elements(m), i, j)) :
                m \in PresetMappings, i \in EditIndexes, j \in 1..AlphabetSize }
      \cup { TupleV(SubSeq(Elements(m), 1, AlphabetSize - 1)) : m \in PresetMappings }
      \cup { ListV(Append(Elements(m), Chr(65))) : m \in PresetMappings }
      \cup { ListV([Elements(m) EXCEPT ![1] = x, ![AlphabetSize] = y]) :
                m \in {PresetB}, x \in EntryValues, y \in EntryValues }
      \cup { NoneV, IntV(5) }

\* the client is about to construct a Reflector from a mapping of the family
InitReflector ==
    /\ Imported
    /\ \E mapping \in MappingArgs :
          last = [op |-> "Reflector", m |-> 0, args |-> mapping,
                  pre |-> [rotors |-> <<>>, machines |-> <<>>], res |-> Pending]

\* reflector = Reflector(mapping)
NewReflector ==
    /\ last.op = "Reflector"
    /\ last.res = Pending
    /\ last' = [last EXCEPT !.res = ReflectorInit(last.args)]
    /\ UNCHANGED <<rotors, machines, calls>>

SpecReflector == InitReflector /\ [][NewReflector]_vars

-----------------------------------------------------------------------------
(* Plugboard construction on its own: the client passes pair lists to      *)
(* EnigmaMachine._check_plugboard, as the constructor does.                 *)

\* a pair list has at most this many entries
MaxPairs == 2

\* "AB", "BA", "AC", "cd", "AA", "Zb", "A1", "ABC", [0, 1], (2, 'd'),
\* [25, 24.0], [0, 26], [3], 7
PairValues ==
    { StrV(<<65, 66>>), StrV(<<66, 65>>), StrV(<<65, 67>>), StrV(<<99, 100>>),
      StrV(<<65, 65>>), StrV(<<90, 98>>), StrV(<<65, 49>>), StrV(<<65, 66, 67>>),
      ListV(<<IntV(0), IntV(1)>>), TupleV(<<IntV(2), Chr(100)>>),
      ListV(<<IntV(25), FloatV(24, 0)>>), ListV(<<IntV(0), IntV(26)>>),
      ListV(<<IntV(3)>>), IntV(7) }

RECURSIVE SeqsUpTo(_, _)
SeqsUpTo(S, n) ==
    IF n = 0 THEN {<<>>}
    ELSE LET shorter == SeqsUpTo(S, n - 1)
         IN shorter \cup {Append(s, x) : s \in shorter, x \in S}

PlugboardArgs ==
    { ListV(ps) : ps \in SeqsUpTo(PairValues, MaxPairs) }
      \cup { TupleV(<<StrV(<<65, 66>>)>>), StrV(<<65, 66>>) }

\* the client is about to pass a pair list of the family
InitPlugboard ==
    /\ Imported
    /\ \E plugboard \in PlugboardArgs :
          last = [op |-> "_check_plugboard", m |-> 0, args |-> plugboard,
                  pre |-> [rotors |-> <<>>, machines |-> <<>>], res |-> Pending]

\* EnigmaMachine._check_plugboard(plugboard)
NewPlugboard ==
    /\ last.op = "_check_plugboard"
    /\ last.res = Pending
    /\ last' = [last EXCEPT !.res = CheckPlugboard(last.args)]
    /\ UNCHANGED <<rotors, machines, calls>>

SpecPlugboard == InitPlugboard /\ [][NewPlugboard]_vars

-----------------------------------------------------------------------------
(* Notions the properties below are stated with *)

\* the machine the last call was made on
Self == machines[last.m]

\* the characters of a message that encode treats, as upper-case letters
Letters(string) ==
    LET cs == Cleaned(string) IN [k \in 1..Len(cs) |-> Upper(cs[k])]

\* a character encode cannot encode
Unencodable(c) == c - OrdA < 0 \/ c - OrdA > 25

\* the symbol a Python value stands for, or -1 when it stands for none
Denotes(x) ==
    IF x[1] = "int" \/ (x[1] = "float" /\ x[3] = 0)
    THEN IF x[2] \in Symbols THEN x[2] ELSE -1
    ELSE IF x[1] = "str" /\ Len(x[2]) = 1
    THEN IF x[2][1] \in 65..90 THEN x[2][1] - 65
         ELSE IF x[2][1] \in 97..122 THEN x[2][1] - 97 ELSE -1
    ELSE -1

\* the stepping of the rotors for k symbols in a row
RECURSIVE StepTimes(_, _, _)
StepTimes(rs, ids, k) ==
    IF k = 0 THEN rs ELSE StepTimes(StepRotors(rs, ids), ids, k - 1)

\* the last call was encode(string) on a machine of the rotor objects ids with
\* reflector B and no plugboard pair, every rotor at position 'A' with ring
\* setting 0
ReferenceRun(ids, string) ==
    /\ last.op = "encode"
    /\ last.args = string
    /\ Self.rotors = ids
    /\ Self.reflector = REFLECTOR_B
    /\ Self.plugboard = [k \in 1..AlphabetSize |-> k - 1]
    /\ \A i \in 1..Len(ids) :
          /\ last.pre.rotors[ids[i]].position = 0
          /\ last.pre.rotors[ids[i]].ring_setting = 0

-----------------------------------------------------------------------------
(* C1 *)

\* C1: self-reciprocity. Whenever encode has returned an output for a message,
\* setting the rotors back to the positions they had before that call with
\* set_positions and encoding the output gives the message back.
SelfReciprocity ==
    (last.op = "encode" /\ last.res.ok) =>
        LET start == [i \in 1..Len(Self.rotors) |->
                        IntV(last.pre.rotors[Self.rotors[i]].position)]
            reset == set_positions(rotors, Self.rotors, ListV(start))
            again == encode(reset.rotors, Self, last.res.val)
        IN /\ reset.res.ok
           /\ again.res = Ok(Letters(last.args))

-----------------------------------------------------------------------------
(* C2 *)

\* C2: double step. After one symbol is encoded on a machine of three
\* distinct rotors, the positions are those of the historical mechanism: the
\* rightmost rotor advanced, the middle rotor advanced when the rightmost or
\* the middle rotor was at a turnover position, the leftmost rotor advanced
\* when the middle rotor was at a turnover position.
HistoricalDoubleStep ==
    (/\ last.op = "encode" /\ last.res.ok
     /\ Len(Cleaned(last.args)) = 1
     /\ Len(Self.rotors) = 3
     /\ Cardinality(Range(Self.rotors)) = 3) =>
        LET left == Self.rotors[1]
            middle == Self.rotors[2]
            right == Self.rotors[3]
            before == last.pre.rotors
            rightAt == before[right].position \in before[right].turnovers
            middleAt == before[middle].position \in before[middle].turnovers
        IN /\ rotors[right].position = Mod26(before[right].position + 1)
           /\ rotors[middle].position =
                 IF rightAt \/ middleAt THEN Mod26(before[middle].position + 1)
                 ELSE before[middle].position
           /\ rotors[left].position =
                 IF middleAt THEN Mod26(before[left].position + 1)
                 ELSE before[left].position

-----------------------------------------------------------------------------
(* C3 *)

\* C3: no shared state. A call of encode, set_positions or set_ring_settings
\* on one machine leaves the position and the ring setting of every rotor of
\* every other machine as they were.
NoSharedState ==
    (last.op \in {"encode", "set_positions", "set_ring_settings"}) =>
        \A other \in (1..Len(machines)) \ {last.m} :
            \A i \in 1..Len(machines[other].rotors) :
                LET r == machines[other].rotors[i]
                IN /\ rotors[r].position = last.pre.rotors[r].position
                   /\ rotors[r].ring_setting = last.pre.rotors[r].ring_setting

-----------------------------------------------------------------------------
(* C4 *)

\* C4 as stated: the machine of the rotor list [ROTOR_3, ROTOR_2, ROTOR_1]
\* (rotor I nearest the plugboard), reflector B, positions 'A', ring settings
\* 0 and no plugboard pair encodes "AAAAA" to "BDZGO".
ReferenceVectorRightToLeft ==
    ReferenceRun(<<3, 2, 1>>, <<65, 65, 65, 65, 65>>) =>
        last.res = Ok(<<66, 68, 90, 71, 79>>)

\* C4 amended: the machine of the rotor list [ROTOR_1, ROTOR_2, ROTOR_3]
\* (rotor I nearest the reflector, rotor III nearest the plugboard), reflector
\* B, positions 'A', ring settings 0 and no plugboard pair encodes "AAAAA" to
\* "BDZGO".
ReferenceVector ==
    ReferenceRun(<<1, 2, 3>>, <<65, 65, 65, 65, 65>>) =>
        last.res = Ok(<<66, 68, 90, 71, 79>>)

\* "AAAAA" has been encoded on the machine I-II-III, left to right
ReferenceVectorRun == ReferenceRun(<<1, 2, 3>>, <<65, 65, 65, 65, 65>>)

-----------------------------------------------------------------------------
(* C5 *)

\* C5: when the cleaned input of encode holds an unencodable character, the
\* first at index k, the call raises ValueError instead of returning output,
\* and the rotors are as k steppings from the state before the call leave
\* them: nothing is rolled back and the offending character steps nothing.
UnencodableAborts ==
    (/\ last.op = "encode"
     /\ \E i \in 1..Len(Cleaned(last.args)) : Unencodable(Cleaned(last.args)[i])) =>
        LET cs == Cleaned(last.args)
            k == (CHOOSE i \in 1..Len(cs) :
                     Unencodable(cs[i]) /\ \A j \in 1..(i-1) : ~Unencodable(cs[j])) - 1
        IN /\ last.res = Raise("ValueError")
           /\ rotors = StepTimes(last.pre.rotors, Self.rotors, k)

\* encode has met an unencodable character after at least one valid symbol,
\* and the rotors have moved
UnencodableAfterValid ==
    /\ last.op = "encode"
    /\ ~last.res.ok
    /\ ~Unencodable(Cleaned(last.args)[1])
    /\ rotors # last.pre.rotors

-----------------------------------------------------------------------------
(* C6 *)

\* C6: an encode call that returns has advanced the rightmost rotor (the last
\* of the machine's list) by exactly 1 modulo 26 for each symbol encoded.
RightmostStepsOnce ==
    (last.op = "encode" /\ last.res.ok) =>
        LET right == Self.rotors[Len(Self.rotors)]
        IN rotors[right].position =
              Mod26(last.pre.rotors[right].position + Len(Cleaned(last.args)))

-----------------------------------------------------------------------------
(* C7 *)

\* C7: turnover cascade. After one symbol is encoded, a rotor other than the
\* rightmost has advanced by 1 if every rotor to its right was at a turnover
\* position before the step, and has not moved otherwise.
TurnoverCascade ==
    (last.op = "encode" /\ last.res.ok /\ Len(Cleaned(last.args)) = 1) =>
        LET ids == Self.rotors
            before == last.pre.rotors
        IN \A i \in 1..(Len(ids) - 1) :
              rotors[ids[i]].position =
                 IF \A j \in (i+1)..Len(ids) :
                       before[ids[j]].position \in before[ids[j]].turnovers
                 THEN Mod26(before[ids[i]].position + 1)
                 ELSE before[ids[i]].position

-----------------------------------------------------------------------------
(* C8 *)

\* C8: every mapping that Reflector construction accepts is self-inverse.
AcceptedReflectorSelfInverse ==
    (last.op = "Reflector" /\ last.res.ok) =>
        \A v \in Symbols : reflect(last.res.val, reflect(last.res.val, v)) = v

-----------------------------------------------------------------------------
(* C9 *)

\* the entries of a mapping stand for the 26 symbols, each once, none at its
\* own index
Derangement(elems) ==
    /\ Len(elems) = AlphabetSize
    /\ \A i \in 1..Len(elems) : Denotes(elems[i]) \in Symbols \ {i - 1}
    /\ \A i, j \in 1..Len(elems) : Denotes(elems[i]) = Denotes(elems[j]) => i = j

\* two entries stand for the same symbol
DuplicateValue(elems) ==
    \E i, j \in 1..Len(elems) :
        i # j /\ Denotes(elems[i]) # -1 /\ Denotes(elems[i]) = Denotes(elems[j])

\* an entry stands for its own index
MapsToItself(elems) == \E i \in 1..Len(elems) : Denotes(elems[i]) = i - 1

\* C9: Reflector construction succeeds only for 26 entries that are a
\* bijection on [0, 25] without fixed point, and then reflect(i) # i for
\* every i; it raises for a mapping with a duplicate value or an index mapped
\* to itself, and the exception is ValueError when every entry is an integer
\* or a string.
ReflectorNoFixedPoint ==
    (last.op = "Reflector" /\ last.res # Pending) =>
        /\ last.res.ok =>
              /\ last.args[1] \in {"str", "list", "tuple"}
              /\ Derangement(Elements(last.args))
              /\ \A i \in Symbols :
                    /\ reflect(last.res.val, i) = Denotes(Elements(last.args)[i + 1])
                    /\ reflect(last.res.val, i) # i
        /\ (/\ last.args[1] \in {"str", "list", "tuple"}
            /\ (\/ DuplicateValue(Elements(last.args))
                \/ MapsToItself(Elements(last.args)))) =>
              /\ ~last.res.ok
              /\ last.res.exc \in {"ValueError", "TypeError"}
              /\ (\A i \in 1..Len(Elements(last.args)) :
                     Elements(last.args)[i][1] \in {"int", "str"})
                    => last.res.exc = "ValueError"

\* a Reflector has been constructed from a mapping that is none of the presets
ReflectorAccepted ==
    /\ last.op = "Reflector"
    /\ last.res.ok
    /\ last.args \notin PresetMappings

-----------------------------------------------------------------------------
(* C10 *)

\* the two symbols of an entry of a pair list
PairSymbols(p) ==
    IF p[1] = "str" THEN <<Denotes(Chr(p[2][1])), Denotes(Chr(p[2][2]))>>
    ELSE <<Denotes(p[2][1]), Denotes(p[2][2])>>

\* C10: the table of an accepted pair list is self-inverse, maps each paired
\* symbol to its partner and every symbol of no pair to itself.
PlugboardSelfInverse ==
    (last.op = "_check_plugboard" /\ last.res.ok) =>
        LET table == last.res.val
            pairs == [i \in 1..Len(last.args[2]) |-> PairSymbols(last.args[2][i])]
            paired == UNION {{pairs[i][1], pairs[i][2]} : i \in 1..Len(pairs)}
        IN /\ Len(table) = AlphabetSize
           /\ \A v \in Symbols : table[v + 1] \in Symbols /\ table[table[v + 1] + 1] = v
           /\ \A i \in 1..Len(pairs) :
                 /\ table[pairs[i][1] + 1] = pairs[i][2]
                 /\ table[pairs[i][2] + 1] = pairs[i][1]
           /\ \A v \in Symbols \ paired : table[v + 1] = v

\* a list of two pairs of distinct symbols has been accepted
PlugboardAccepted ==
    /\ last.op = "_check_plugboard"
    /\ last.res.ok
    /\ Len(last.args[2]) = 2
    /\ \A i \in 1..2 : PairSymbols(last.args[2][i])[1] # PairSymbols(last.args[2][i])[2]


-----------------------------------------------------------------------------
(* Machine construction on its own: the client constructs one machine from  *)
(* preset rotors, REFLECTOR_B and a pair list of the plugboard family.      *)

\* the rotor lists of the constructions
ConstructRotors == { <<4>>, <<1, 2, 3>>, <<1, 1>> }

ConstructArgs ==
    { <<ids, REFLECTOR_B, NoneV, NoneV, plugboard>> :
        ids \in ConstructRotors, plugboard \in PlugboardArgs \cup {NoneV} }

\* the client is about to construct a machine
InitConstruct ==
    /\ Imported
    /\ \E a \in ConstructArgs :
          last = [op |-> "EnigmaMachine", m |-> 0, args |-> a,
                  pre |-> [rotors |-> <<>>, machines |-> <<>>], res |-> Pending]

\* machine = EnigmaMachine(rotors, reflector, positions, ring_settings, plugboard)
Construct ==
    /\ last.op = "EnigmaMachine"
    /\ last.res = Pending
    /\ LET a == last.args
           out == MachineInit(rotors, a[1], a[2], a[3], a[4], a[5])
       IN /\ rotors' = out.rotors
          /\ machines' = IF out.res.ok THEN Append(machines, out.res.val)
                         ELSE machines
          /\ last' = [last EXCEPT !.m = IF out.res.ok THEN Len(machines) + 1 ELSE 0,
                                  !.pre = Snapshot, !.res = out.res]
    /\ calls' = calls + 1

SpecConstruct == InitConstruct /\ [][Construct]_vars

-----------------------------------------------------------------------------
(* C11 *)

\* an entry of a pair list that names two symbols
WellFormedPair(p) ==
    /\ p[1] \in {"str", "list", "tuple"}
    /\ Len(p[2]) = 2
    /\ PairSymbols(p)[1] \in Symbols
    /\ PairSymbols(p)[2] \in Symbols

\* two entries of the pair list name a common symbol
RepeatedSymbol(plugs) ==
    \E i, j \in 1..Len(plugs) :
        /\ i # j
        /\ WellFormedPair(plugs[i])
        /\ WellFormedPair(plugs[j])
        /\ {PairSymbols(plugs[i])[1], PairSymbols(plugs[i])[2]}
              \cap {PairSymbols(plugs[j])[1], PairSymbols(plugs[j])[2]} # {}

\* the last call constructed a machine from a list or tuple of plugboard
\* entries, two of which name a common symbol
ConstructedWithRepeat ==
    /\ last.op = "EnigmaMachine"
    /\ last.res # Pending
    /\ last.args[5][1] \in {"list", "tuple"}
    /\ RepeatedSymbol(last.args[5][2])

\* C11: a construction whose pair list names some symbol in two entries
\* fails, whatever the order of the entries and the side of the symbol, and
\* creates no machine; when every entry names two symbols the failure is the
\* ValueError of the conflict check.
ConflictingMappingRejected ==
    ConstructedWithRepeat =>
        /\ ~last.res.ok
        /\ machines = last.pre.machines
        /\ rotors = last.pre.rotors
        /\ (\A i \in 1..Len(last.args[5][2]) : WellFormedPair(last.args[5][2][i]))
              => last.res = Raise("ValueError")

\* a construction has failed on a pair list of two entries, each naming two
\* symbols, the second symbol of the second being one of the first's
ConflictOnSecondSide ==
    /\ ConstructedWithRepeat
    /\ ~last.res.ok
    /\ Len(last.args[5][2]) = 2
    /\ \A i \in 1..2 : WellFormedPair(last.args[5][2][i])
    /\ PairSymbols(last.args[5][2][2])[2] \in
          {PairSymbols(last.args[5][2][1])[1], PairSymbols(last.args[5][2][1])[2]}
    /\ PairSymbols(last.args[5][2][2])[1] \notin
          {PairSymbols(last.args[5][2][1])[1], PairSymbols(last.args[5][2][1])[2]}


-----------------------------------------------------------------------------
(* C12 *)

\* the last call was set_positions or set_ring_settings with a list or tuple
SetterCalled ==
    /\ last.op \in {"set_positions", "set_ring_settings"}
    /\ last.args[1] \in {"list", "tuple"}

\* the field of a rotor the last call sets
FieldSet(rot) ==
    IF last.op = "set_positions" THEN rot.position ELSE rot.ring_setting

\* every entry of the list stands for a symbol
AllEntriesValid(xs) == \A i \in 1..Len(xs) : Denotes(xs[i]) \in Symbols

\* C12: with a list of another length than the rotor list the setters raise
\* ValueError and leave every rotor as it was; with a list of that length
\* whose entries are all valid they leave the rotor at each index i with
\* entry i as its position (ring setting).
SettersPerIndex ==
    SetterCalled =>
        LET xs == last.args[2]
            ids == Self.rotors
        IN /\ Len(xs) # Len(ids) =>
                 /\ last.res = Raise("ValueError")
                 /\ rotors = last.pre.rotors
           /\ (Len(xs) = Len(ids) /\ AllEntriesValid(xs)) =>
                 /\ last.res.ok
                 /\ \A i \in 1..Len(ids) : FieldSet(rotors[ids[i]]) = Denotes(xs[i])


-----------------------------------------------------------------------------
(* C13 *)

\* C13: whatever calls have been made, failed ones included, the position and
\* the ring setting of every rotor are integers from 0 to 25.
PositionsInRange ==
    \A r \in RotorIds :
        /\ rotors[r].position \in 0..25
        /\ rotors[r].ring_setting \in 0..25

\* an encode call has stepped a rotor from position 25 to position 0
WrappedAround ==
    /\ last.op = "encode"
    /\ \E r \in RotorIds :
          /\ last.pre.rotors[r].position = 25
          /\ rotors[r].position = 0


-----------------------------------------------------------------------------
(* Rotor construction on its own: the client constructs Rotor objects from  *)
(* alphabets drawn from a family around the preset wirings, at every        *)
(* position and several ring settings.                                      *)

\* the alphabet a rotor was constructed from, as a string
AlphabetOf(rot) ==
    StrV([i \in 1..AlphabetSize |-> Mod26(rot.increments[i] + (i - 1)) + 65])

PresetAlphabets ==
    { AlphabetOf(rot) : rot \in { ROTOR_1, ROTOR_2, ROTOR_3, ROTOR_4, ROTOR_5,
                                  ROTOR_6, ROTOR_7, ROTOR_8 } }

AlphabetArgs ==
    PresetAlphabets
      \cup { ListV(Swapped(Elements(AlphabetOf(ROTOR_1)), i, j)) :
                i \in EditIndexes, j \in 1..AlphabetSize }
      \cup { ListV([Elements(AlphabetOf(ROTOR_1)) EXCEPT ![i] = x]) :
                i \in EditIndexes, x \in EntryValues }
      \cup { TupleV(SubSeq(Elements(a), 1, AlphabetSize - 1)) : a \in PresetAlphabets }
      \cup { NoneV }

\* Rotor(alphabet, turnovers, position, ring_setting): every position, and
\* 'b', 26; ring settings 0, 1, 25, 'c', -1
RotorArgs ==
    { <<alphabet, Chr(81), position, ring_setting>> :
        alphabet \in AlphabetArgs,
        position \in { IntV(n) : n \in 0..AlphabetSize } \cup { Chr(98) },
        ring_setting \in { IntV(0), IntV(1), IntV(25), Chr(99), IntV(-1) } }

\* the client is about to construct a rotor
InitRotor ==
    /\ Imported
    /\ \E a \in RotorArgs :
          last = [op |-> "Rotor", m |-> 0, args |-> a,
                  pre |-> [rotors |-> <<>>, machines |-> <<>>], res |-> Pending]

\* rotor = Rotor(alphabet, turnovers, position, ring_setting)
NewRotor ==
    /\ last.op = "Rotor"
    /\ last.res = Pending
    /\ last' = [last EXCEPT
                  !.res = RotorInit(last.args[1], last.args[2], last.args[3],
                                    last.args[4])]
    /\ UNCHANGED <<rotors, machines, calls>>

SpecRotor == InitRotor /\ [][NewRotor]_vars

-----------------------------------------------------------------------------
(* C14 *)

\* C14: on every constructed rotor, whatever its alphabet, position and ring
\* setting, right_side and left_side map the 26 symbols to symbols and each
\* undoes the other.
SidesInverse ==
    (last.op = "Rotor" /\ last.res.ok) =>
        LET rot == last.res.val
        IN \A v \in Symbols :
              /\ right_side(rot, v) \in Symbols
              /\ left_side(rot, v) \in Symbols
              /\ left_side(rot, right_side(rot, v)) = v
              /\ right_side(rot, left_side(rot, v)) = v

\* a rotor has been constructed from an alphabet that is none of the presets,
\* at a position other than its ring setting, neither being 0
RotorAccepted ==
    /\ last.op = "Rotor"
    /\ last.res.ok
    /\ last.args[1] \notin PresetAlphabets
    /\ last.res.val.position # 0
    /\ last.res.val.ring_setting # 0
    /\ last.res.val.position # last.res.val.ring_setting


-----------------------------------------------------------------------------
(* C15 *)

\* C15: an encode call, whether it returns or raises, leaves every machine's
\* rotor list, reflector mapping and plugboard table, and every rotor's ring
\* setting, turnovers and increments as they were; positions alone may differ.
EncodeChangesPositionsOnly ==
    last.op = "encode" =>
        /\ machines = last.pre.machines
        /\ \A r \in RotorIds :
              [rotors[r] EXCEPT !.position = last.pre.rotors[r].position]
                 = last.pre.rotors[r]

\* an encode call has moved a rotor whose ring setting is not 0 on a machine
\* with plugboard pairs
EncodeMovedRotors ==
    /\ last.op = "encode"
    /\ \E i \in 1..Len(Self.rotors) :
          /\ rotors[Self.rotors[i]].position # last.pre.rotors[Self.rotors[i]].position
          /\ rotors[Self.rotors[i]].ring_setting # 0
    /\ \E v \in Symbols : Self.plugboard[v + 1] # v


-----------------------------------------------------------------------------
(* C16 *)

\* the characters of a string that are not spaces, in order
NonSpaces(string) == SelectSeq(string, LAMBDA c : c # 32)

\* a string of letters and spaces only
LettersAndSpaces(string) ==
    \A i \in 1..Len(string) : string[i] \in (65..90) \cup (97..122) \cup {32}

\* C16: for a message of letters and spaces encode returns a string of
\* upper-case letters with one letter for each character that is no space,
\* in order: the output for the first k such characters is the first k
\* letters of the output.
LengthPreserved ==
    (last.op = "encode" /\ LettersAndSpaces(last.args)) =>
        LET kept == NonSpaces(last.args)
        IN /\ last.res.ok
           /\ Len(last.res.val) = Len(kept)
           /\ \A k \in 1..Len(kept) : last.res.val[k] \in 65..90
           /\ \A k \in 0..Len(kept) :
                 encode(last.pre.rotors, Self, SubSeq(kept, 1, k)).res
                    = Ok(SubSeq(last.res.val, 1, k))

\* a message with a space between its letters has been encoded
EncodedAroundSpace ==
    /\ last.op = "encode"
    /\ LettersAndSpaces(last.args)
    /\ Len(NonSpaces(last.args)) < Len(last.args)
    /\ Len(NonSpaces(last.args)) > 1
    /\ last.res.ok


-----------------------------------------------------------------------------
(* C17 *)

\* C17: when encode(s1) has returned, a following encode(s2) that returns
\* gives together with it the output of one encode(s1 + s2) made from the
\* rotor positions before the first call, and leaves the rotors as that one
\* call does.
EncodeFolds ==
    (last.op = "encode" /\ last.res.ok) =>
        \A s2 \in Messages :
            LET second == encode(rotors, Self, s2)
                whole == encode(last.pre.rotors, Self, last.args \o s2)
            IN second.res.ok =>
                  /\ whole.res = Ok(last.res.val \o second.res.val)
                  /\ whole.rotors = second.rotors

\* encode has returned an output of some letters and a further message of
\* some letters can be encoded after it
EncodedWithMoreToCome ==
    /\ last.op = "encode"
    /\ last.res.ok
    /\ Len(last.res.val) > 0
    /\ rotors # last.pre.rotors
    /\ \E s2 \in Messages : Len(s2) > 0 /\ encode(rotors, Self, s2).res.ok


-----------------------------------------------------------------------------
(* C18 *)

\* the wiring table W of a rotor, W[k] for k in 0..25, and its inverse table
WiringTable(rot) ==
    [k \in Symbols |-> Mod26(k + rot.increments[k + 1])]

InverseTable(rot) ==
    [k \in Symbols |-> CHOOSE j \in Symbols : WiringTable(rot)[j] = k]

\* (T[(v + position - ring_setting) mod 26] - (position - ring_setting)) mod 26
ThroughTable(T, rot, v) ==
    LET shift == rot.position - rot.ring_setting
    IN (T[(v + shift) % AlphabetSize] - shift) % AlphabetSize

\* the wiring tables from the rotor at index i down to index 1
RECURSIVE ReferenceRight(_, _, _, _)
ReferenceRight(rs, ids, i, v) ==
    IF i = 0 THEN v
    ELSE ReferenceRight(rs, ids, i - 1,
                        ThroughTable(WiringTable(rs[ids[i]]), rs[ids[i]], v))

\* the inverse tables from the rotor at index i up to the last index
RECURSIVE ReferenceLeft(_, _, _, _)
ReferenceLeft(rs, ids, i, v) ==
    IF i > Len(ids) THEN v
    ELSE ReferenceLeft(rs, ids, i + 1,
                       ThroughTable(InverseTable(rs[ids[i]]), rs[ids[i]], v))

\* plugboard, wiring tables from the last index to the first, reflector,
\* inverse tables from the first index to the last, plugboard
ReferencePath(rs, self, v) ==
    LET a == self.plugboard[v + 1]
        b == ReferenceRight(rs, self.rotors, Len(self.rotors), a)
        c == self.reflector[b + 1]
        d == ReferenceLeft(rs, self.rotors, 1, c)
    IN self.plugboard[d + 1]

\* C18: letter k of the output of encode is the reference path of character k
\* of the message with the rotors as they are after k steppings from the
\* state before the call: each symbol steps the rotors first and is then
\* passed through them.
StepThenReferencePath ==
    (last.op = "encode" /\ last.res.ok) =>
        LET cs == Letters(last.args)
        IN /\ Len(last.res.val) = Len(cs)
           /\ \A k \in 1..Len(cs) :
                 last.res.val[k] =
                    65 + ReferencePath(StepTimes(last.pre.rotors, Self.rotors, k),
                                       Self, cs[k] - 65)

\* encode has returned two letters or more on a machine with a rotor whose
\* position and ring setting differ
EncodedOffCentre ==
    /\ last.op = "encode"
    /\ last.res.ok
    /\ Len(last.res.val) >= 2
    /\ \E i \in 1..Len(Self.rotors) :
          last.pre.rotors[Self.rotors[i]].ring_setting # 0


-----------------------------------------------------------------------------
(* C19 *)

\* C19: no letter of an output of encode is the letter it was made from, and
\* in every reachable state every machine encodes each of the 26 letters to
\* another letter.
NoSelfEncoding ==
    /\ (last.op = "encode" /\ last.res.ok) =>
          \A k \in 1..Len(last.res.val) : last.res.val[k] # Letters(last.args)[k]
    /\ \A m \in 1..Len(machines), v \in Symbols :
          LET out == encode(rotors, machines[m], <<v + 65>>)
          IN out.res.ok /\ out.res.val # <<v + 65>>

\* encode has returned some letters on a machine with plugboard pairs whose
\* reflector is not self-inverse
EncodedThroughOneWayReflector ==
    /\ last.op = "encode"
    /\ last.res.ok
    /\ Len(last.res.val) > 0
    /\ \E v \in Symbols : Self.plugboard[v + 1] # v
    /\ \E v \in Symbols : Self.reflector[Self.reflector[v + 1] + 1] # v


-----------------------------------------------------------------------------
(* C20 *)

\* the index of the first entry of the list that stands for no symbol, or 0
FirstInvalid(xs) ==
    IF AllEntriesValid(xs) THEN 0
    ELSE CHOOSE k \in 1..Len(xs) :
            /\ Denotes(xs[k]) \notin Symbols
            /\ \A i \in 1..(k - 1) : Denotes(xs[i]) \in Symbols

\* C20: a setter given a list of the right length with an invalid entry
\* raises, leaving the rotors at the indexes before the first invalid entry
\* with their entries and the rotors from that index on as they were.
SettersStopAtFirstInvalid ==
    (/\ SetterCalled
     /\ Len(last.args[2]) = Len(Self.rotors)
     /\ ~AllEntriesValid(last.args[2])) =>
        LET xs == last.args[2]
            ids == Self.rotors
            k == FirstInvalid(xs)
        IN /\ ~last.res.ok
           /\ \A i \in 1..(k - 1) : FieldSet(rotors[ids[i]]) = Denotes(xs[i])
           /\ \A i \in k..Len(ids) :
                 FieldSet(rotors[ids[i]]) = FieldSet(last.pre.rotors[ids[i]])

=============================================================================
